---- MODULE Spec2Model ----
(***************************************************************************)
(* Iteration control of the agent loop, in its two realizations:           *)
(*   - the persisted loop: the record .claude/agent-loop.local.md and the  *)
(*     shell hooks that create it and intercept the host's exit;           *)
(*   - the in-process controller SweAgentInteraction (two variants).       *)
(* Text is modelled as sequences of tokens: a line is a sequence of        *)
(* tokens, a file or a shell string is a sequence of lines.  A token is a  *)
(* one-character string (a digit, ":", " ", "Q" for the double quote,      *)
(* "<") or an atomic word ("iteration", "---", "<promise>", "DONE" ...).   *)
(***************************************************************************)
EXTENDS Integers, Sequences, FiniteSets, TLC

VARIABLES
    \* ---- persisted loop ----
    stateFile,    \* the record: [exists |-> BOOLEAN, lines |-> file lines]
    shadowFile,   \* the same record as it would be with the plain body "task"
    hookOut,      \* what the last hook invocation emitted
    shadowOut,    \* what it emitted on the shadow record
    hookIn,       \* the event the last hook invocation consumed
    hookPayload,  \* the payload the creation hook consumed, when it ran last
    hookPre,      \* the record as the last hook invocation found it
    shadowPre,    \* the shadow record as it found it
    lastOp,       \* the last hook that ran
    updates,      \* prompt-update invocations so far
    blocks,       \* exits blocked since the record was created
    createdMax    \* max_iterations of the last creation, -1 before any

hookVars ==
    <<stateFile, shadowFile, hookOut, shadowOut, hookIn, hookPayload, hookPre,
      shadowPre, lastOp,
      updates, blocks, createdMax>>

VARIABLES
    \* ---- in-process controller ----
    config,          \* constructor arguments: variant, maxIterations, ...
    iteration,       \* SweAgent.iteration
    pause,           \* SweAgent.pause
    mode,            \* SweAgentInteraction.mode
    isQuitting,      \* SweAgentInteraction.isQuitting
    exited,          \* process.exit(0) was called
    sigintTimer,     \* the deferred run() of the SIGINT handler is pending
    staleTimer,      \* a deferred run() set by the handler of a closed interface
    closes,          \* the number of closes of the input stream without a quit
    questionOwner,   \* the chain whose rl.question is pending, 0 when none
    chains,          \* the suspended call chains
    producerCalls,   \* aiCommand invocations since the last top-level prompt
    execCalls,       \* executeCommand invocations since the last top-level prompt
    sigints,         \* the number of SIGINTs received
    producerThrew,   \* an aiCommand call was rejected since the last top-level prompt
    sawMarker,       \* a step content since the last top-level prompt held the marker
    promptMode,      \* the mode in which the last top-level prompt was taken
    quitBy,          \* what set isQuitting: "command", "typed", "sentinel"
    lastGate,        \* the answer the confirmation gate got in the last action
    lastAC           \* what attemptCompletion did, when the last action ran it

ctlVars ==
    <<config, iteration, pause, mode, isQuitting, exited, sigintTimer,
      staleTimer, closes, questionOwner, chains, producerCalls, execCalls, sigints,
      producerThrew, sawMarker, promptMode, quitBy, lastGate, lastAC>>

VARIABLES
    \* ---- the completion check alone ----
    dText,           \* the content given to the check, split at "\n"
    dPromise,        \* the configured phrase
    dResult          \* "none" before the check, then "true" or "false"

detVars == <<dText, dPromise, dResult>>

VARIABLES
    \* ---- one call of the producer wrapper aiCommand ----
    call             \* the call's position, its timers and what it holds

wrapVars == <<call>>

vars == <<hookVars, ctlVars, detVars, wrapVars>>

\* no call of the producer wrapper is under study
NoCall ==
    [pc |-> "off", persona |-> FALSE, healthCheckHandle |-> FALSE,
     aborted |-> "no", sends |-> 0, settled |-> FALSE, mainResponse |-> "",
     checkInterval |-> FALSE, thinking |-> "none", gLlm |-> FALSE,
     sessionTimout |-> FALSE, tools |-> 0, ret |-> "none"]

WrapAtRest == call = NoCall

----------------------------------------------------------------------------
(* Bounds of the model                                                      *)

\* The exit hook is not invoked once the stored iteration has this many
\* digits-value (caps the unbounded loop of max_iterations = 0).
MaxCount == 6

\* Prompt-update invocations in a behaviour.
MaxUpdates == 1

----------------------------------------------------------------------------
(* Decimal text <-> numbers, as the shell reads and writes them             *)

Digits == {"0", "1", "2", "3", "4", "5", "6", "7", "8", "9"}

DigitStr == <<"0", "1", "2", "3", "4", "5", "6", "7", "8", "9">>

DigitVal(d) == CHOOSE v \in 0..9 : DigitStr[v + 1] = d

\* [[ "$X" =~ ^[0-9]+$ ]] on one line of text
IsDigits(toks) == Len(toks) > 0 /\ \A i \in 1..Len(toks) : toks[i] \in Digits

RECURSIVE ParseInt(_)
ParseInt(toks) ==
    IF toks = <<>> THEN 0
    ELSE 10 * ParseInt(SubSeq(toks, 1, Len(toks) - 1)) + DigitVal(toks[Len(toks)])

RECURSIVE FormatInt(_)
FormatInt(n) ==
    IF n < 10 THEN <<DigitStr[n + 1]>>
    ELSE FormatInt(n \div 10) \o <<DigitStr[(n % 10) + 1]>>

----------------------------------------------------------------------------
(* Shell strings: the value of $(...) is the command's output with every    *)
(* trailing newline removed, i.e. the lines without trailing empty lines.   *)

RECURSIVE StripTrailing(_)
StripTrailing(ls) ==
    IF ls # <<>> /\ ls[Len(ls)] = <<>>
    THEN StripTrailing(SubSeq(ls, 1, Len(ls) - 1))
    ELSE ls

\* [[ "$X" =~ ^[0-9]+$ ]] on a shell string: one line, digits only
IsIntString(s) == Len(s) = 1 /\ IsDigits(s[1])

IntOf(s) == ParseInt(s[1])

----------------------------------------------------------------------------
(* awk -F': ' '/^key:/{print $2}'                                           *)

\* /^key:/
KeyMatch(line, key) == Len(line) >= 2 /\ line[1] = key /\ line[2] = ":"

\* index of the first ": " at or after position i, 0 when there is none
RECURSIVE SepAt(_, _)
SepAt(line, i) ==
    IF i + 1 > Len(line) THEN 0
    ELSE IF line[i] = ":" /\ line[i + 1] = " " THEN i
    ELSE SepAt(line, i + 1)

\* $2 under -F': '
Field2(line) ==
    LET s1 == SepAt(line, 1) IN
      IF s1 = 0 THEN <<>>
      ELSE LET s2 == SepAt(line, s1 + 2) IN
             IF s2 = 0 THEN SubSeq(line, s1 + 2, Len(line))
             ELSE SubSeq(line, s1 + 2, s2 - 1)

\* gsub(/"/, "", $2)
StripQuotes(toks) == SelectSeq(toks, LAMBDA t : t # "Q")

RECURSIVE AwkFields(_, _)
AwkFields(lines, key) ==
    IF lines = <<>> THEN <<>>
    ELSE (IF KeyMatch(Head(lines), key) THEN <<Field2(Head(lines))>> ELSE <<>>)
         \o AwkFields(Tail(lines), key)

RECURSIVE MapStripQuotes(_)
MapStripQuotes(ls) ==
    IF ls = <<>> THEN <<>> ELSE <<StripQuotes(Head(ls))>> \o MapStripQuotes(Tail(ls))

ParseIter(lines) == StripTrailing(AwkFields(lines, "iteration"))

ParseMax(lines) == StripTrailing(AwkFields(lines, "max_iterations"))

ParsePromise(lines) ==
    StripTrailing(MapStripQuotes(AwkFields(lines, "completion_promise")))

\* awk '/^---$/{i++; next} i>=2'
RECURSIVE AwkBody(_, _)
AwkBody(lines, i) ==
    IF lines = <<>> THEN <<>>
    ELSE IF Head(lines) = <<"---">> THEN AwkBody(Tail(lines), i + 1)
    ELSE (IF i >= 2 THEN <<Head(lines)>> ELSE <<>>) \o AwkBody(Tail(lines), i)

ParsePrompt(lines) == StripTrailing(AwkBody(lines, 0))

----------------------------------------------------------------------------
(* tail -1 "$TRANSCRIPT" | grep -o '<promise>[^<]*</promise>'               *)
(*                       | sed 's/<[^>]*>//g'                               *)

\* tokens whose text holds a "<"
HasLt(t) == t \in {"<promise>", "</promise>", "<"}

\* position of the "</promise>" that ends [^<]* started at i, 0 when none
RECURSIVE CloseAt(_, _)
CloseAt(line, i) ==
    IF i > Len(line) THEN 0
    ELSE IF line[i] = "</promise>" THEN i
    ELSE IF HasLt(line[i]) THEN 0
    ELSE CloseAt(line, i + 1)

\* every match of the pattern on the line, tags removed, one per output line
RECURSIVE GrepPromises(_, _)
GrepPromises(line, i) ==
    IF i > Len(line) THEN <<>>
    ELSE IF line[i] = "<promise>" /\ CloseAt(line, i + 1) # 0
         THEN <<SubSeq(line, i + 1, CloseAt(line, i + 1) - 1)>>
              \o GrepPromises(line, CloseAt(line, i + 1) + 1)
         ELSE GrepPromises(line, i + 1)

Found(last) == StripTrailing(GrepPromises(last, 1))

----------------------------------------------------------------------------
(* The record and the hooks' events                                         *)

NoFile == [exists |-> FALSE, lines |-> <<>>]

File(ls) == [exists |-> TRUE, lines |-> ls]

NoOut == [decision |-> "none", why |-> "none", next |-> 0, prompt |-> <<>>]

NoEvent == [exists |-> FALSE, last |-> <<>>]

\* the exit event: whether "transcript_path" names an existing file, and
\* that file's last line
ExitEvents ==
    { NoEvent }
    \cup { [exists |-> TRUE, last |-> l] : l \in
            { <<"text">>,
              <<"<promise>", "DONE", "</promise>">>,
              <<"<promise>", "done", "</promise>">>,
              <<"text", " ", "<promise>", "DONE", "</promise>">>,
              <<"<promise>", "x", "</promise>", " ", "<promise>", "DONE", "</promise>">>,
              <<"<promise>", "attempt_completion", "</promise>">>,
              <<"<promise>", "null", "</promise>">> } }

\* the params of the tool invocation (<<>>: the field is absent)
SamplePrompts ==
    { <<>>,
      <<"task">>,
      <<"say", " ", "Q", "hi", "Q">>,
      <<"---">>,
      <<"iteration", ":", " ", "7">>,
      <<"iteration", ":", " ">>,
      <<"max_iterations", ":", " ", "3">> }

SampleMax == { <<>>, <<"0">>, <<"1">>, <<"5">> }

SamplePromises == { <<>>, <<"DONE">>, <<"null">>, <<"ALL", ":", " ", "DONE">> }

\* the payloads: every prompt with max_iterations 5 and the phrase DONE,
\* and the prompt "task" with every max_iterations and every phrase
Payloads ==
    { p \in [prompt : SamplePrompts, max_iterations : SampleMax,
             completion_promise : SamplePromises] :
        \/ p.max_iterations = <<"5">> /\ p.completion_promise = <<"DONE">>
        \/ p.prompt = <<"task">> }

DefaultMaxIterations == <<"5", "0">>

DefaultCompletionPromise == <<"attempt_completion">>

NoPayload == [prompt |-> <<>>, max_iterations |-> <<>>, completion_promise |-> <<>>]

\* a string value as JSON writes it: the double quote is escaped
RECURSIVE JsonEscape(_)
JsonEscape(toks) ==
    IF toks = <<>> THEN <<>>
    ELSE (IF Head(toks) = "Q" THEN <<"\\", "Q">> ELSE <<Head(toks)>>)
         \o JsonEscape(Tail(toks))

\* one member of the params object, nothing when the field is absent
JsonMember(key, value, type) ==
    IF value = <<>> THEN <<>>
    ELSE <<"Q", key, "Q", ":">>
         \o (IF type = "number" THEN value ELSE <<"Q">> \o JsonEscape(value) \o <<"Q">>)
         \o <<",">>

\* HOOK_INPUT: {"tool_input":{"method":"agent-loop","params":{...}}}
HookInput(payload) ==
    <<"{", "Q", "tool_input", "Q", ":", "{", "Q", "method", "Q", ":",
      "Q", "agent-loop", "Q", ",", "Q", "params", "Q", ":", "{">>
    \o JsonMember("prompt", payload.prompt, "string")
    \o JsonMember("max_iterations", payload.max_iterations, "number")
    \o JsonMember("completion_promise", payload.completion_promise, "string")
    \o <<"}", "}", "}">>

\* [0-9]+ from token i on
RECURSIVE DigitRun(_, _)
DigitRun(json, i) ==
    IF i <= Len(json) /\ json[i] \in Digits
    THEN <<json[i]>> \o DigitRun(json, i + 1) ELSE <<>>

\* [^"]* from token i on, and whether a double quote follows it
RECURSIVE QuoteFree(_, _)
QuoteFree(json, i) ==
    IF i > Len(json) THEN [text |-> <<>>, closed |-> FALSE]
    ELSE IF json[i] = "Q" THEN [text |-> <<>>, closed |-> TRUE]
    ELSE LET r == QuoteFree(json, i + 1)
         IN  [text |-> <<json[i]>> \o r.text, closed |-> r.closed]

\* grep -oP "$grep_pattern" | head -1: the first match from token i on, <<>>
\* when there is none
RECURSIVE GrepValue(_, _, _, _)
GrepValue(json, key, type, i) ==
    IF i + 3 > Len(json) THEN <<>>
    ELSE IF SubSeq(json, i, i + 3) = <<"Q", key, "Q", ":">>
            /\ type = "number" /\ DigitRun(json, i + 4) # <<>>
         THEN DigitRun(json, i + 4)
    ELSE IF SubSeq(json, i, i + 3) = <<"Q", key, "Q", ":">>
            /\ type = "string" /\ i + 4 <= Len(json) /\ json[i + 4] = "Q"
            /\ QuoteFree(json, i + 5).closed
         THEN QuoteFree(json, i + 5).text
    ELSE GrepValue(json, key, type, i + 1)

\* extract_json_value: the first pattern's match (the sed and awk stages run
\* when it is empty and find no value either in an input that holds the key
\* once), then echo "${value:-$default}"
ExtractJsonValue(json, key, type, default) ==
    IF GrepValue(json, key, type, 1) = <<>> THEN default
    ELSE GrepValue(json, key, type, 1)

\* the here-document of the creation hook
RecordText(iter, max, promise, prompt) ==
    << <<"---">>,
       <<"iteration", ":", " ">> \o iter,
       <<"max_iterations", ":", " ">> \o max,
       <<"completion_promise", ":", " ", "Q">> \o promise \o <<"Q">>,
       <<"---">>,
       <<>>,
       prompt >>

\* the three extract_json_value calls of the creation hook on `payload`
ExtractParams(payload) ==
    LET json == HookInput(payload)
    IN  [max     |-> ExtractJsonValue(json, "max_iterations", "number",
                                      DefaultMaxIterations),
         promise |-> ExtractJsonValue(json, "completion_promise", "string",
                                      DefaultCompletionPromise),
         prompt  |-> ExtractJsonValue(json, "prompt", "string", <<>>)]

\* the payload with the plain prompt "task" in place of its prompt
ShadowOf(payload) ==
    [payload EXCEPT !.prompt = IF payload.prompt = <<>> THEN <<>> ELSE <<"task">>]

\* what the hook extracts from each sample payload, as pairs
ParamsTable ==
    { <<p, ExtractParams(p)>> : p \in Payloads \cup { ShadowOf(q) : q \in Payloads } }

\* the same as a function of the payload
ParamsOf ==
    [p \in { e[1] : e \in ParamsTable } |-> (CHOOSE e \in ParamsTable : e[1] = p)[2]]

\* extract-and-create-loop.sh: the record after the hook ran on `payload`
CreateRun(file, payload) ==
    LET v == IF payload \in DOMAIN ParamsOf THEN ParamsOf[payload]
             ELSE ExtractParams(payload)
    IN  IF v.prompt = <<>> THEN file
        ELSE File(RecordText(<<"1">>, v.max, v.promise, v.prompt))

----------------------------------------------------------------------------
(* The exit hook (stop hook)                                                *)

GraceThreshold == 2

\* mutant of MaxReached: the ceiling compared with > instead of >=
MaxReachedStrict(iter, max) == iter > max /\ max > 0

\* (( ITER >= MAX && MAX > 0 ))
MaxReached(iter, max) == iter >= max /\ max > 0

\* mutant of ChecksPromise: the grace threshold dropped
ChecksPromiseNoGrace(iter, promise) ==
    promise # <<>> /\ promise # << <<"null">> >>

\* [[ $ITER -gt 2 && -n "$PROMISE" && "$PROMISE" != "null" ]]
ChecksPromise(iter, promise) ==
    iter > GraceThreshold /\ promise # <<>> /\ promise # << <<"null">> >>

\* mutant of PromiseFound: a transcript that cannot be read counts as a
\* completion
PromiseFoundOrMissing(ev, promise) == ~ev.exists \/ Found(ev.last) = promise

\* [[ -f "$TRANSCRIPT" ]] and [[ "$FOUND" == "$PROMISE" ]]
PromiseFound(ev, promise) == ev.exists /\ Found(ev.last) = promise

\* mutant of SedIteration: the stored iteration is not advanced
SedIterationKeeps(lines, next) == lines

\* sed -i "s/^iteration: .*/iteration: $NEXT/"
SedIteration(lines, next) ==
    [i \in 1..Len(lines) |->
        IF Len(lines[i]) >= 3 /\ SubSeq(lines[i], 1, 3) = <<"iteration", ":", " ">>
        THEN <<"iteration", ":", " ">> \o FormatInt(next)
        ELSE lines[i]]

\* mutant of StopRun: fail-closed, a record whose counters do not parse is
\* kept and the exit is blocked
StopRunBlocksCorrupt(file, ev) ==
    IF ~file.exists
    THEN [file |-> file,
          out |-> [decision |-> "allow", why |-> "nofile", next |-> 0, prompt |-> <<>>]]
    ELSE
    LET iterS   == ParseIter(file.lines)
        maxS    == ParseMax(file.lines)
        promise == ParsePromise(file.lines)
        prompt  == ParsePrompt(file.lines)
    IN  IF ~(IsIntString(iterS) /\ IsIntString(maxS))
        THEN [file |-> file,
              out |-> [decision |-> "block", why |-> "corrupt", next |-> 0, prompt |-> prompt]]
        ELSE IF MaxReached(IntOf(iterS), IntOf(maxS))
        THEN [file |-> NoFile,
              out |-> [decision |-> "allow", why |-> "max", next |-> 0, prompt |-> <<>>]]
        ELSE IF ChecksPromise(IntOf(iterS), promise) /\ PromiseFound(ev, promise)
        THEN [file |-> NoFile,
              out |-> [decision |-> "allow", why |-> "completed", next |-> 0, prompt |-> <<>>]]
        ELSE [file |-> File(SedIteration(file.lines, IntOf(iterS) + 1)),
              out |-> [decision |-> "block", why |-> "continue",
                       next |-> IntOf(iterS) + 1, prompt |-> prompt]]

\* mutant of StopRun: a completed loop's record is not deleted
StopRunKeepsCompleted(file, ev) ==
    IF ~file.exists
    THEN [file |-> file,
          out |-> [decision |-> "allow", why |-> "nofile", next |-> 0, prompt |-> <<>>]]
    ELSE
    LET iterS   == ParseIter(file.lines)
        maxS    == ParseMax(file.lines)
        promise == ParsePromise(file.lines)
        prompt  == ParsePrompt(file.lines)
    IN  IF ~(IsIntString(iterS) /\ IsIntString(maxS))
        THEN [file |-> NoFile,
              out |-> [decision |-> "allow", why |-> "corrupt", next |-> 0, prompt |-> <<>>]]
        ELSE IF MaxReached(IntOf(iterS), IntOf(maxS))
        THEN [file |-> NoFile,
              out |-> [decision |-> "allow", why |-> "max", next |-> 0, prompt |-> <<>>]]
        ELSE IF ChecksPromise(IntOf(iterS), promise) /\ PromiseFound(ev, promise)
        THEN [file |-> file,
              out |-> [decision |-> "allow", why |-> "completed", next |-> 0, prompt |-> <<>>]]
        ELSE [file |-> File(SedIteration(file.lines, IntOf(iterS) + 1)),
              out |-> [decision |-> "block", why |-> "continue",
                       next |-> IntOf(iterS) + 1, prompt |-> prompt]]

\* one run of the hook on record `file` and exit event `ev`
StopRun(file, ev) ==
    IF ~file.exists
    THEN [file |-> file,
          out |-> [decision |-> "allow", why |-> "nofile", next |-> 0, prompt |-> <<>>]]
    ELSE
    LET iterS   == ParseIter(file.lines)
        maxS    == ParseMax(file.lines)
        promise == ParsePromise(file.lines)
        prompt  == ParsePrompt(file.lines)
    IN  IF ~(IsIntString(iterS) /\ IsIntString(maxS))
        THEN [file |-> NoFile,
              out |-> [decision |-> "allow", why |-> "corrupt", next |-> 0, prompt |-> <<>>]]
        ELSE IF MaxReached(IntOf(iterS), IntOf(maxS))
        THEN [file |-> NoFile,
              out |-> [decision |-> "allow", why |-> "max", next |-> 0, prompt |-> <<>>]]
        ELSE IF ChecksPromise(IntOf(iterS), promise) /\ PromiseFound(ev, promise)
        THEN [file |-> NoFile,
              out |-> [decision |-> "allow", why |-> "completed", next |-> 0, prompt |-> <<>>]]
        ELSE [file |-> File(SedIteration(file.lines, IntOf(iterS) + 1)),
              out |-> [decision |-> "block", why |-> "continue",
                       next |-> IntOf(iterS) + 1, prompt |-> prompt]]

----------------------------------------------------------------------------
(* The prompt-update hooks: three scripts of the repository                 *)
(*   "replace": header, empty line, new prompt                              *)
(*   "append":  header, the file from its line 5 on, empty line, new prompt *)
(*   "stdin":   the delimiter lines, new prompt (the whole of stdin)        *)

UpdateVariants == {"replace", "append", "stdin"}

\* the new prompt of the user-prompt event (<<>>: absent or empty)
SampleNewPrompts ==
    { <<>>,
      <<"next">>,
      <<"iteration", ":", " ">>,
      <<"max_iterations", ":", " ", "3">> }

\* sed -n '/^---$/,/^---$/p': every range that starts at a delimiter line
\* and ends at the next one (or at the end of the file)
RECURSIVE SedRange(_, _)
SedRange(lines, inRange) ==
    IF lines = <<>> THEN <<>>
    ELSE IF inRange
         THEN <<Head(lines)>> \o SedRange(Tail(lines), Head(lines) # <<"---">>)
    ELSE IF Head(lines) = <<"---">>
         THEN <<Head(lines)>> \o SedRange(Tail(lines), TRUE)
    ELSE SedRange(Tail(lines), FALSE)

\* tail -n +5
TailFrom5(lines) == SubSeq(lines, 5, Len(lines))

\* awk '/^---$/{i++; if(i==1) print; if(i==2) exit}'
AwkFirstDelimiter(lines) ==
    IF \E i \in 1..Len(lines) : lines[i] = <<"---">> THEN << <<"---">> >> ELSE <<>>

\* mutant of UpdateRun: the test for the record's existence dropped
UpdateRunNoFileTest(file, prompt, variant) ==
    IF variant = "stdin"
    THEN File(AwkFirstDelimiter(file.lines) \o << <<"---">>, prompt >>)
    ELSE IF prompt = <<>> THEN file
    ELSE IF variant = "replace"
    THEN File(SedRange(file.lines, FALSE) \o << <<>>, prompt >>)
    ELSE File(SedRange(file.lines, FALSE) \o TailFrom5(file.lines) \o << <<>>, prompt >>)

\* one run of a prompt-update hook on record `file` with the new prompt
UpdateRun(file, prompt, variant) ==
    IF ~file.exists THEN file
    ELSE IF variant = "stdin"
    THEN File(AwkFirstDelimiter(file.lines) \o << <<"---">>, prompt >>)
    ELSE IF prompt = <<>> THEN file
    ELSE IF variant = "replace"
    THEN File(SedRange(file.lines, FALSE) \o << <<>>, prompt >>)
    ELSE File(SedRange(file.lines, FALSE) \o TailFrom5(file.lines) \o << <<>>, prompt >>)

\* the counter the model stops at: the stored iteration, when it parses
Counter(file) ==
    IF file.exists /\ IsIntString(ParseIter(file.lines))
    THEN IntOf(ParseIter(file.lines)) ELSE 0

----------------------------------------------------------------------------
(* The persisted loop as a state machine                                    *)

HookInit ==
    /\ stateFile = NoFile
    /\ shadowFile = NoFile
    /\ hookOut = NoOut
    /\ shadowOut = NoOut
    /\ hookIn = NoEvent
    /\ hookPayload = NoPayload
    /\ hookPre = NoFile
    /\ shadowPre = NoFile
    /\ lastOp = "none"
    /\ updates = 0
    /\ blocks = 0
    /\ createdMax = -1

\* the tool-invocation event
CreateHook ==
    \E payload \in Payloads :
        /\ stateFile' = CreateRun(stateFile, payload)
        /\ shadowFile' = CreateRun(shadowFile, ShadowOf(payload))
        /\ hookOut' = NoOut
        /\ shadowOut' = NoOut
        /\ hookIn' = NoEvent
        /\ hookPayload' = payload
        /\ hookPre' = stateFile
        /\ shadowPre' = shadowFile
        /\ lastOp' = "create"
        /\ IF ParamsOf[payload].prompt = <<>>
           THEN UNCHANGED <<blocks, createdMax>>
           ELSE /\ blocks' = 0
                /\ createdMax' = ParseInt(ParamsOf[payload].max)
        /\ UNCHANGED updates
        /\ UNCHANGED <<ctlVars, detVars, wrapVars>>

\* the host's "about to exit" event
StopStep(ev) ==
    /\ LET run    == StopRun(stateFile, ev)
           shadow == StopRun(shadowFile, ev)
       IN  /\ stateFile' = run.file
           /\ hookOut' = run.out
           /\ shadowFile' = shadow.file
           /\ shadowOut' = shadow.out
    /\ hookIn' = ev
    /\ hookPayload' = NoPayload
    /\ hookPre' = stateFile
    /\ shadowPre' = shadowFile
    /\ lastOp' = "stop"
    /\ blocks' = IF hookOut'.decision = "block" THEN blocks + 1 ELSE blocks
    /\ UNCHANGED <<updates, createdMax>>

StopHook ==
    /\ Counter(stateFile) < MaxCount
    /\ Counter(shadowFile) < MaxCount
    /\ \E ev \in ExitEvents : StopStep(ev)
    /\ UNCHANGED <<ctlVars, detVars, wrapVars>>

\* the user-prompt event; hookIn keeps the new prompt as its `last`
UpdateHook ==
    \E prompt \in SampleNewPrompts, variant \in UpdateVariants :
        /\ updates < MaxUpdates
        /\ stateFile' = UpdateRun(stateFile, prompt, variant)
        /\ shadowFile' = UpdateRun(shadowFile,
                                   IF prompt = <<>> THEN <<>> ELSE <<"task">>, variant)
        /\ hookOut' = NoOut
        /\ shadowOut' = NoOut
        /\ hookIn' = [exists |-> FALSE, last |-> prompt]
        /\ hookPayload' = NoPayload
        /\ hookPre' = stateFile
        /\ shadowPre' = shadowFile
        /\ lastOp' = variant
        /\ updates' = updates + 1
        /\ UNCHANGED <<blocks, createdMax>>
        /\ UNCHANGED <<ctlVars, detVars, wrapVars>>

HookNext == CreateHook \/ StopHook \/ UpdateHook


----------------------------------------------------------------------------
(* The in-process controller: SweAgent / SweAgentInteraction                *)
(* Two variants: "github" (src/.github/src/utils) and "copilot"             *)
(* (src/copilot/src).  Mode.Auto and Mode.YOLO are both written "auto".     *)
(*                                                                          *)
(* The code between two awaits runs atomically.  An async call chain (a     *)
(* run() loop and the step() chain it awaits) is a "chain"; it is           *)
(* suspended at one of: the top-level question ("ask"), the 1 s delay of    *)
(* step ("delay"), the producer call ("ai"), the confirmation question      *)
(* ("confirm"), the edit question ("edit"), the executor call ("exec").     *)


\* SIGINTs delivered to the controller
MaxSigints == 1

\* closes of the input stream without a quit
MaxCloses == 1

\* the maxIterations the controller is constructed with (0: documented as
\* unbounded; 3: DEFAULT_MAX_ITERATIONS)
SampleMaxIterations == {0, 1, 3}

PROMISE_LINES == 10

\* init starts one call chain of run(); the SIGINT handler (at once or by
\* its timer) and the close handler start others, as long as one of these
\* chains is free
Chains == 1..(MaxSigints + 1)

\* the github variant always has an executor (DEFAULT_FUNC when none is
\* given); the copilot variant has one only when it is given
Configs ==
    { [variant |-> "github", maxIterations |-> n, hasExecutor |-> TRUE,
       completionPromise |-> <<"DONE">>] : n \in SampleMaxIterations }
    \cup
    { [variant |-> "copilot", maxIterations |-> n, hasExecutor |-> e,
       completionPromise |-> <<"DONE">>] : n \in SampleMaxIterations, e \in BOOLEAN }

\* lines typed at the top-level question
Inputs == {"/h", "/a", "/c", "/q", "/x", "", "exit", "task"}

\* answers to "Confirm? (Y/n/e)> ", trimmed and lower-cased
ConfirmAnswers == {"y", "", "n", "e", "what"}

MarkerLine == <<"<promise>", "DONE", "</promise>">>

\* what a producer or an executor returns: the text split at "\n"
SampleContents ==
    { << <<>> >>,
      << <<" ">>, <<>> >>,
      << <<"ok">> >>,
      << MarkerLine >>,
      << <<"work">>, <<"text", " ", "<promise>", " ", "DONE", " ", "</promise>">>, <<>> >>,
      << <<"<promise>", "done", "</promise>">> >>,
      << <<"<promise>", "x", "</promise>", "<promise>", "DONE", "</promise>">> >>,
      << <<"<promise>", "DONE", "<", "</promise>">> >>,
      << MarkerLine, <<"1">>, <<"2">>, <<"3">>, <<"4">>, <<"5">>,
         <<"6">>, <<"7">>, <<"8">>, <<"9">>, <<"10">> >>,
      << MarkerLine, <<"1">>, <<"2">>, <<"3">>, <<"4">>, <<"5">>,
         <<"6">>, <<"7">>, <<"8">>, <<"9">> >> }

----------------------------------------------------------------------------
(* attemptCompletion's scan of the content                                  *)

\* String.prototype.trim on one line
RECURSIVE TrimLeft(_)
TrimLeft(toks) ==
    IF toks # <<>> /\ Head(toks) = " " THEN TrimLeft(Tail(toks)) ELSE toks

RECURSIVE TrimRight(_)
TrimRight(toks) ==
    IF toks # <<>> /\ toks[Len(toks)] = " "
    THEN TrimRight(SubSeq(toks, 1, Len(toks) - 1)) ELSE toks

Trim(toks) == TrimRight(TrimLeft(toks))

\* !content?.trim()
BlankContent(content) == \A i \in 1..Len(content) : Trim(content[i]) = <<>>

\* text.match(PROMISE_PATTERN): the capture of the leftmost match from i on
RECURSIVE FirstCapture(_, _)
FirstCapture(line, i) ==
    IF i > Len(line) THEN [found |-> FALSE, text |-> <<>>]
    ELSE IF line[i] = "<promise>" /\ CloseAt(line, i + 1) # 0
         THEN [found |-> TRUE, text |-> SubSeq(line, i + 1, CloseAt(line, i + 1) - 1)]
         ELSE FirstCapture(line, i + 1)

\* null
Null == <<>>

\* match?.[1]?.trim() || null
ExtractPromise(line) ==
    LET m == FirstCapture(line, 1)
    IN  IF m.found /\ Trim(m.text) # <<>> THEN Trim(m.text) ELSE Null

\* mutant of LastLines: every line of the content is scanned
LastLinesAll(content) == content

\* content.split("\n").slice(-CONFIG.PROMISE_LINES)
LastLines(content) ==
    SubSeq(content,
           IF Len(content) > PROMISE_LINES THEN Len(content) - PROMISE_LINES + 1 ELSE 1,
           Len(content))

\* the for loop of attemptCompletion finds promise === completionPromise
Detect(content, promise) ==
    /\ ~BlankContent(content)
    /\ \E i \in 1..Len(LastLines(content)) :
          /\ ExtractPromise(LastLines(content)[i]) # Null
          /\ ExtractPromise(LastLines(content)[i]) = promise

----------------------------------------------------------------------------
(* The controller's code, as functions of the state s                       *)

State ==
    [config |-> config, iteration |-> iteration, pause |-> pause, mode |-> mode,
     isQuitting |-> isQuitting, exited |-> exited, sigintTimer |-> sigintTimer,
     staleTimer |-> staleTimer, closes |-> closes,
     questionOwner |-> questionOwner, chains |-> chains,
     producerCalls |-> producerCalls, execCalls |-> execCalls,
     sigints |-> sigints, producerThrew |-> producerThrew,
     sawMarker |-> sawMarker, promptMode |-> promptMode, quitBy |-> quitBy,
     lastGate |-> lastGate, lastAC |-> lastAC]

CtlBecomes(s) ==
    /\ config' = s.config
    /\ iteration' = s.iteration
    /\ pause' = s.pause
    /\ mode' = s.mode
    /\ isQuitting' = s.isQuitting
    /\ exited' = s.exited
    /\ sigintTimer' = s.sigintTimer
    /\ staleTimer' = s.staleTimer
    /\ closes' = s.closes
    /\ questionOwner' = s.questionOwner
    /\ chains' = s.chains
    /\ producerCalls' = s.producerCalls
    /\ execCalls' = s.execCalls
    /\ sigints' = s.sigints
    /\ producerThrew' = s.producerThrew
    /\ sawMarker' = s.sawMarker
    /\ promptMode' = s.promptMode
    /\ quitBy' = s.quitBy
    /\ lastGate' = s.lastGate
    /\ lastAC' = s.lastAC

Becomes(s) == CtlBecomes(s) /\ UNCHANGED <<hookVars, detVars, wrapVars>>

Starts(s) ==
    /\ config = s.config
    /\ iteration = s.iteration
    /\ pause = s.pause
    /\ mode = s.mode
    /\ isQuitting = s.isQuitting
    /\ exited = s.exited
    /\ sigintTimer = s.sigintTimer
    /\ staleTimer = s.staleTimer
    /\ closes = s.closes
    /\ questionOwner = s.questionOwner
    /\ chains = s.chains
    /\ producerCalls = s.producerCalls
    /\ execCalls = s.execCalls
    /\ sigints = s.sigints
    /\ producerThrew = s.producerThrew
    /\ sawMarker = s.sawMarker
    /\ promptMode = s.promptMode
    /\ quitBy = s.quitBy
    /\ lastGate = s.lastGate
    /\ lastAC = s.lastAC

IdleChain == [pc |-> "none", prompt |-> "", gate |-> FALSE]

NoAC ==
    [ran |-> FALSE, chain |-> 0, threw |-> "none", detect |-> FALSE, paused |-> FALSE,
     mode |-> "none", iteration |-> 0, producerCalls |-> 0, execCalls |-> 0,
     outcome |-> "none"]

\* ask(): rl.question keeps one pending question; a question asked while
\* another one is pending is not registered, so its promise never settles
\* and the chain that awaits it never runs again.
Ask(s, c, kind) ==
    IF s.questionOwner # 0
    THEN [s EXCEPT !.chains[c] = IdleChain]
    ELSE [s EXCEPT !.questionOwner = c, !.chains[c].pc = kind]

\* run(): the head of the while loop, with no userPrompt left
RunLoop(s, c) == Ask([s EXCEPT !.chains[c] = IdleChain], c, "ask")

\* this.isQuitting = true; this.rl.close(): the close handler calls
\* process.exit(0), which ends every call chain and timer
Quit(s, by) ==
    [s EXCEPT !.isQuitting = TRUE, !.exited = TRUE, !.quitBy = by,
              !.chains = [c \in Chains |-> IdleChain],
              !.questionOwner = 0, !.sigintTimer = FALSE, !.staleTimer = FALSE]

\* SweAgent.step up to its first await
SuperStep(s, c, input, gate) ==
    [s EXCEPT !.iteration = @ + 1,
              !.chains[c] = [pc |-> "delay", prompt |-> input, gate |-> gate]]

\* mutant of Step: the "exit" sentinel is not recognized and is dispatched
\* like any prompt (the behaviour of the base class SweAgent)
StepDispatchesExit(s, c, input, by) ==
    IF s.pause \/ input = "" THEN RunLoop(s, c)
    ELSE IF s.mode = "confirm" THEN SuperStep(s, c, input, TRUE)
    ELSE SuperStep(s, c, input, FALSE)

\* SweAgentInteraction.step
Step(s, c, input, by) ==
    IF s.pause \/ input = "" THEN RunLoop(s, c)
    ELSE IF input = "exit" THEN Quit(s, by)
    ELSE IF s.mode = "confirm" THEN SuperStep(s, c, input, TRUE)
    ELSE SuperStep(s, c, input, FALSE)

\* some line of the content holds the marker <promise>PHRASE</promise>
ContainsMarker(content, promise) ==
    \E i \in 1..Len(content) : \E k \in 1..Len(content[i]) :
        /\ k + Len(promise) + 1 <= Len(content[i])
        /\ SubSeq(content[i], k, k + Len(promise) + 1)
             = <<"<promise>">> \o promise \o <<"</promise>">>

\* the content holds the completion marker: literally, or as the scan reads
\* it (the phrase surrounded by whitespace)
HoldsMarker(content, promise) ==
    ContainsMarker(content, promise) \/ Detect(content, promise)

\* mutant of Decision: the ceiling compared with > instead of >=
DecisionStrict(s, content) ==
    IF s.config.variant = "github"
    THEN IF Detect(content, s.config.completionPromise) THEN "exit"
         ELSE IF s.iteration > s.config.maxIterations THEN "exit"
         ELSE "continue"
    ELSE IF s.mode # "auto" THEN "return"
         ELSE IF Detect(content, s.config.completionPromise) THEN "exit"
         ELSE IF s.iteration > s.config.maxIterations THEN "exit"
         ELSE "continue"

\* what attemptCompletion decides: "exit", "continue" or "return"
Decision(s, content) ==
    IF s.config.variant = "github"
    THEN IF Detect(content, s.config.completionPromise) THEN "exit"
         ELSE IF s.iteration >= s.config.maxIterations THEN "exit"
         ELSE "continue"
    ELSE IF s.mode # "auto" THEN "return"
         ELSE IF Detect(content, s.config.completionPromise) THEN "exit"
         ELSE IF s.iteration >= s.config.maxIterations THEN "exit"
         ELSE "continue"

\* mutant of AttemptCompletion: a detected promise does not end the loop
AttemptCompletionIgnoresPromise(s, c, content) ==
    LET d  == IF s.config.variant = "copilot" /\ s.mode # "auto" THEN "return"
              ELSE IF s.iteration >= s.config.maxIterations THEN "exit"
              ELSE "continue"
        s1 == [s EXCEPT
                !.sawMarker = @ \/ HoldsMarker(content, s.config.completionPromise),
                !.lastAC = [ran |-> TRUE, chain |-> c, threw |-> "none",
                            detect |-> Detect(content, s.config.completionPromise),
                            paused |-> s.pause, mode |-> s.mode,
                            iteration |-> s.iteration,
                            producerCalls |-> s.producerCalls,
                            execCalls |-> s.execCalls, outcome |-> d]]
    IN  IF d = "exit" THEN Step(s1, c, "exit", "sentinel")
        ELSE IF d = "continue" THEN Step(s1, c, s.chains[c].prompt, "sentinel")
        ELSE RunLoop(s1, c)

\* SweAgent.attemptCompletion
AttemptCompletion(s, c, content) ==
    LET d  == Decision(s, content)
        s1 == [s EXCEPT
                !.sawMarker = @ \/ HoldsMarker(content, s.config.completionPromise),
                !.lastAC = [ran |-> TRUE, chain |-> c, threw |-> "none",
                            detect |-> Detect(content, s.config.completionPromise),
                            paused |-> s.pause, mode |-> s.mode,
                            iteration |-> s.iteration,
                            producerCalls |-> s.producerCalls,
                            execCalls |-> s.execCalls, outcome |-> d]]
    IN  IF d = "exit" THEN Step(s1, c, "exit", "sentinel")
        ELSE IF d = "continue" THEN Step(s1, c, s.chains[c].prompt, "sentinel")
        ELSE RunLoop(s1, c)

\* mutant of OnExecutorThrow: the error is not caught in handleCommand and
\* reaches the catch of run()
OnExecutorThrowUncaught(s, c, message) == RunLoop(s, c)

\* SweAgent.handleCommand, the catch: content = error.message, then
\* attemptCompletion(content, userPrompt)
OnExecutorThrow(s, c, message) == AttemptCompletion(s, c, message)

\* SweAgent.handleCommand up to its await
HandleCommand(s, c, command) ==
    IF s.config.hasExecutor
    THEN [s EXCEPT !.execCalls = @ + 1, !.chains[c].pc = "exec"]
    ELSE AttemptCompletion(s, c, command)

\* mutant of AfterProducer: the pause flag is not read after the producer
\* await
AfterProducerIgnoresPause(s, c, aiCommand) ==
    IF s.config.variant = "copilot" /\ ~s.config.hasExecutor
         THEN HandleCommand(s, c, aiCommand)
    ELSE IF s.chains[c].gate THEN Ask(s, c, "confirm")
    ELSE HandleCommand(s, c, aiCommand)

\* SweAgent.step after the producer returned aiCommand
AfterProducer(s, c, aiCommand) ==
    IF s.pause THEN RunLoop(s, c)
    ELSE IF s.config.variant = "copilot" /\ ~s.config.hasExecutor
         THEN HandleCommand(s, c, aiCommand)
    ELSE IF s.chains[c].gate THEN Ask(s, c, "confirm")
    ELSE HandleCommand(s, c, aiCommand)

\* SweAgent.step after the callback (the confirmation gate) returned
AfterGate(s, c, result) ==
    IF s.pause THEN RunLoop(s, c) ELSE HandleCommand(s, c, result)

\* mutant of TopLevel: every line read resets iteration and pause, and a
\* slash-command is dispatched after the reset
TopLevelAlwaysResets(s, c, input) ==
    LET r == [s EXCEPT !.iteration = 0, !.pause = FALSE]
    IN  IF input = "/a" THEN RunLoop([r EXCEPT !.mode = "auto"], c)
        ELSE IF input = "/c" THEN RunLoop([r EXCEPT !.mode = "confirm"], c)
        ELSE IF input = "/q" THEN Quit(r, "command")
        ELSE IF input \in {"/h", "/x"} THEN RunLoop(r, c)
        ELSE Step([r EXCEPT !.producerCalls = 0, !.execCalls = 0, !.sawMarker = FALSE,
                            !.producerThrew = FALSE, !.promptMode = s.mode],
                  c, input, "typed")

\* run(): one line read at the top-level question
TopLevel(s, c, input) ==
    IF input = "/a" THEN RunLoop([s EXCEPT !.mode = "auto"], c)
    ELSE IF input = "/c" THEN RunLoop([s EXCEPT !.mode = "confirm"], c)
    ELSE IF input = "/q" THEN Quit(s, "command")
    ELSE IF input \in {"/h", "/x"} THEN RunLoop(s, c)
    ELSE Step([s EXCEPT !.iteration = 0, !.pause = FALSE,
                        !.producerCalls = 0, !.execCalls = 0, !.sawMarker = FALSE,
                        !.producerThrew = FALSE, !.promptMode = s.mode],
              c, input, "typed")

\* this.run() called by a handler: a new chain, if its question registers
FreeChain(s) == CHOOSE c \in Chains :
                    /\ s.chains[c].pc = "none"
                    /\ \A d \in Chains : s.chains[d].pc = "none" => c <= d

\* a run() started now finds a chain of the model to run in (the number of
\* chains is bounded by Chains)
HasRoom(s) == s.questionOwner # 0 \/ \E c \in Chains : s.chains[c].pc = "none"

NewRun(s) == IF s.questionOwner # 0 THEN s ELSE RunLoop(s, FreeChain(s))

\* mutant of OnSigint: the handler does not clear the pending timer
OnSigintKeepsTimer(s) ==
    LET s1 == [s EXCEPT !.sigints = @ + 1]
    IN  IF s.mode = "auto" /\ ~s.pause
        THEN [s1 EXCEPT !.pause = TRUE, !.sigintTimer = TRUE]
        ELSE NewRun(s1)

\* the rl "SIGINT" handler
OnSigint(s) ==
    LET s1 == [s EXCEPT !.sigintTimer = FALSE, !.sigints = @ + 1]
    IN  IF s.mode = "auto" /\ ~s.pause
        THEN [s1 EXCEPT !.pause = TRUE, !.sigintTimer = TRUE]
        ELSE NewRun(s1)

\* the input stream closes while isQuitting is false: the question pending on
\* the closed interface is never answered, so the chain that awaits it never
\* runs again; a timer set by the old handler stays pending, out of reach of
\* the clearTimeout of the new handler
CloseInterface(s) ==
    [s EXCEPT !.chains = [c \in Chains |->
                            IF c = s.questionOwner THEN IdleChain ELSE s.chains[c]],
              !.questionOwner = 0,
              !.staleTimer = s.staleTimer \/ s.sigintTimer,
              !.sigintTimer = FALSE]

\* mutant of OnClose: the close handler exits whatever isQuitting is
OnCloseAlwaysExits(s) == [Quit(s, "none") EXCEPT !.isQuitting = s.isQuitting,
                                                 !.closes = @ + 1]

\* the rl "close" handler when isQuitting is false: a new interface, new
\* handlers and this.run()
OnClose(s) == NewRun([CloseInterface(s) EXCEPT !.closes = @ + 1])

\* init(mode, userPrompt) of a controller constructed with cfg
Boot(cfg, m, userPrompt) ==
    LET s0 == [config |-> cfg, iteration |-> 0, pause |-> FALSE, mode |-> m,
               isQuitting |-> FALSE, exited |-> FALSE, sigintTimer |-> FALSE,
               staleTimer |-> FALSE, closes |-> 0,
               questionOwner |-> 0, chains |-> [c \in Chains |-> IdleChain],
               producerCalls |-> 0, execCalls |-> 0, sigints |-> 0,
               producerThrew |-> FALSE, sawMarker |-> FALSE, promptMode |-> "none",
               quitBy |-> "none",
               lastGate |-> "none", lastAC |-> NoAC]
    IN  IF userPrompt = "" THEN RunLoop(s0, 1) ELSE TopLevel(s0, 1, userPrompt)

----------------------------------------------------------------------------
(* The controller as a state machine                                        *)

CtlInit ==
    \E cfg \in Configs, m \in {"auto", "confirm"}, p \in {"", "task"} :
        Starts(Boot(cfg, m, p))

\* the state every action starts from: lastAC describes the last action only
Now == [State EXCEPT !.lastAC = NoAC, !.lastGate = "none"]

\* a line is typed at the top-level question
TopLevelInput ==
    \E c \in Chains, input \in Inputs :
        /\ ~exited
        /\ questionOwner = c
        /\ chains[c].pc = "ask"
        /\ Becomes(TopLevel([Now EXCEPT !.questionOwner = 0], c, input))

\* the 1 s delay of step elapses: the producer is called
DelayElapsed ==
    \E c \in Chains :
        /\ ~exited
        /\ chains[c].pc = "delay"
        /\ Becomes([Now EXCEPT !.producerCalls = @ + 1, !.chains[c].pc = "ai"])

\* what the producer returns: a command for the executor when there is one
\* (the content of the step is then what the executor returns), the content
\* of the step when there is none
ProducerOutputs ==
    IF config.hasExecutor THEN { << <<"cmd">> >> } ELSE SampleContents

\* the producer returns
ProducerReturns ==
    \E c \in Chains, aiCommand \in ProducerOutputs :
        /\ ~exited
        /\ chains[c].pc = "ai"
        /\ Becomes(AfterProducer(Now, c, aiCommand))

\* the producer throws: nothing in step catches it, the catch of run() logs
\* it and the loop of run() goes on
ProducerThrows ==
    \E c \in Chains :
        /\ ~exited
        /\ chains[c].pc = "ai"
        /\ Becomes([RunLoop([Now EXCEPT !.producerThrew = TRUE], c)
                      EXCEPT !.lastAC.threw = "producer"])

\* the producer of copilot-loop stalls: its watchdog aborts the call, the
\* catch of aiCommand logs the hang and returns "", which step handles as the
\* producer's output
ProducerStalls ==
    \E c \in Chains :
        /\ ~exited
        /\ chains[c].pc = "ai"
        /\ config.variant = "copilot"
        /\ ~config.hasExecutor
        /\ Becomes([AfterProducer(Now, c, << <<>> >>)
                      EXCEPT !.lastAC.threw = "stall"])

\* the confirmation question is answered
ConfirmAnswered ==
    \E c \in Chains, r \in ConfirmAnswers :
        /\ ~exited
        /\ questionOwner = c
        /\ chains[c].pc = "confirm"
        /\ LET s == [Now EXCEPT !.questionOwner = 0, !.lastGate = r]
           IN  Becomes(IF r = "what" THEN Ask(s, c, "confirm")
                       ELSE IF r = "e" THEN Ask(s, c, "edit")
                       ELSE IF r = "n" THEN AfterGate(s, c, << <<>> >>)
                       ELSE AfterGate(s, c, << <<"cmd">> >>))

\* the edit question is answered
EditAnswered ==
    \E c \in Chains, edited \in { << <<>> >>, << <<"edited">> >> } :
        /\ ~exited
        /\ questionOwner = c
        /\ chains[c].pc = "edit"
        /\ Becomes(AfterGate([Now EXCEPT !.questionOwner = 0], c,
                             IF edited = << <<>> >> THEN << <<"cmd">> >> ELSE edited))

\* the executor returns
ExecutorReturns ==
    \E c \in Chains, content \in SampleContents :
        /\ ~exited
        /\ chains[c].pc = "exec"
        /\ Becomes(AttemptCompletion(Now, c, content))

\* the messages of the errors an executor throws
SampleMessages == { << <<>> >>, << <<"failed">> >>, << MarkerLine >> }

\* the executor throws (or rejects); lastAC.threw marks the action
ExecutorThrows ==
    \E c \in Chains, message \in SampleMessages :
        /\ ~exited
        /\ chains[c].pc = "exec"
        /\ Becomes([OnExecutorThrow(Now, c, message) EXCEPT !.lastAC.threw = "executor"])

\* the user presses Ctrl-C
Sigint ==
    /\ ~exited
    /\ sigints < MaxSigints
    /\ (mode = "auto" /\ ~pause) \/ HasRoom(Now)
    /\ Becomes(OnSigint(Now))

\* the deferred run() of the SIGINT handler
TimerFires ==
    /\ ~exited
    /\ sigintTimer
    /\ HasRoom(Now)
    /\ Becomes(NewRun([Now EXCEPT !.sigintTimer = FALSE]))

\* a deferred run() that outlived its interface
StaleTimerFires ==
    /\ ~exited
    /\ staleTimer
    /\ HasRoom(Now)
    /\ Becomes(NewRun([Now EXCEPT !.staleTimer = FALSE]))

\* the input stream closes without a quit (end of input)
StreamCloses ==
    /\ ~exited
    /\ closes < MaxCloses
    /\ ~(staleTimer /\ sigintTimer)
    /\ HasRoom(CloseInterface(Now))
    /\ Becomes(OnClose(Now))

CtlNext ==
    \/ TopLevelInput
    \/ DelayElapsed
    \/ ProducerReturns
    \/ ProducerThrows
    \/ ProducerStalls
    \/ ConfirmAnswered
    \/ EditAnswered
    \/ ExecutorReturns
    \/ ExecutorThrows
    \/ Sigint
    \/ TimerFires
    \/ StaleTimerFires
    \/ StreamCloses

\* the controller constructed and never started
CtlAtRest ==
    Starts([Boot(CHOOSE cfg \in Configs : cfg.variant = "github" /\ cfg.maxIterations = 0,
                 "confirm", "")
            EXCEPT !.questionOwner = 0, !.chains = [c \in Chains |-> IdleChain]])

\* the persisted loop alone: no controller runs
\* no completion check is under study
DetectAtRest ==
    /\ dText = <<>>
    /\ dPromise = <<>>
    /\ dResult = "none"

HookStart == HookInit /\ CtlAtRest /\ DetectAtRest /\ WrapAtRest

HookSpec == HookStart /\ [][HookNext]_vars

\* the controller alone: no hook runs
Init == CtlInit /\ HookInit /\ DetectAtRest /\ WrapAtRest

Next == CtlNext

Spec == Init /\ [][Next]_vars

\* the controller left to itself: timers fire, the producer and the executor
\* return, SIGINTs arrive, and nobody types anything
UnattendedNext ==
    \/ DelayElapsed
    \/ ProducerReturns
    \/ ExecutorReturns
    \/ Sigint
    \/ TimerFires

\* setTimeout callbacks run once due; the producer and the executor settle
UnattendedSpec ==
    /\ Init
    /\ [][UnattendedNext]_vars
    /\ WF_vars(DelayElapsed)
    /\ WF_vars(ProducerReturns)
    /\ WF_vars(ExecutorReturns)
    /\ WF_vars(TimerFires)

\* C31 (as claimed): after one SIGINT during an Auto-mode loop and with no
\* further human input, the loop eventually resumes: pause becomes FALSE
\* again (and a producer call or the terminal exit follows).
C31_InterruptedLoopResumes ==
    (pause /\ sigints = 1) ~> (~pause \/ exited)

\* a SIGINT that arrives while the timer of the previous one is pending
SecondSigint ==
    /\ ~exited
    /\ sigints < MaxSigints + 1
    /\ sigintTimer
    /\ HasRoom(Now)
    /\ Becomes(OnSigint(Now))

DebounceNext == UnattendedNext \/ SecondSigint

\* the unattended controller with a second interrupt inside the debounce
\* window
DebounceSpec == Init /\ [][DebounceNext]_vars

\* C32: in Auto mode the first SIGINT sets pause and schedules one deferred
\* run() without entering the run loop; a second SIGINT before the timer
\* fires cancels the timer and enters the run loop at once (its question is
\* asked when none is pending); after the pair no timer is pending, so the
\* run loop is entered exactly once.
C32_DebounceEntersOnce ==
    [][ /\ (sigints = 0 /\ sigints' = 1 /\ mode = "auto" /\ ~pause)
             => ( /\ pause'
                  /\ sigintTimer'
                  /\ chains' = chains
                  /\ questionOwner' = questionOwner )
        /\ (sigints = 1 /\ sigints' = 2 /\ sigintTimer)
             => ( /\ pause'
                  /\ ~sigintTimer'
                  /\ ~staleTimer'
                  /\ IF questionOwner = 0
                     THEN /\ questionOwner' # 0
                          /\ chains[questionOwner'].pc = "none"
                          /\ chains'[questionOwner'].pc = "ask"
                     ELSE chains' = chains /\ questionOwner' = questionOwner )
        /\ sigints = 2
             => ( /\ ~sigintTimer'
                  /\ ~staleTimer'
                  /\ \A c \in Chains : chains[c].pc = "none" => chains'[c].pc = "none" )
      ]_vars

\* C32 witness: two SIGINTs, the second inside the window: paused, no timer
\* pending, the run loop asking, the interrupted step still at its producer.
C32_Witness ==
    /\ sigints = 2
    /\ mode = "auto"
    /\ pause
    /\ ~sigintTimer
    /\ questionOwner # 0
    /\ chains[questionOwner].pc = "ask"
    /\ \E c \in Chains : chains[c].pc = "ai"

----------------------------------------------------------------------------
(* The two realizations side by side: a controller in Auto mode given the   *)
(* prompt "task", and a record created with the same maxIterations and      *)
(* phrase; every iteration's content is also the tail of the transcript     *)
(* that the exit hook is given.                                             *)

\* tail -1 of a transcript that ends with the content
TailLine(content) ==
    IF Len(content) > 1 /\ content[Len(content)] = <<>>
    THEN content[Len(content) - 1]
    ELSE content[Len(content)]

PairPayload(cfg) ==
    [prompt |-> <<"task">>,
     max_iterations |-> FormatInt(cfg.maxIterations),
     completion_promise |-> cfg.completionPromise]

PairInit ==
    \E cfg \in Configs :
        /\ Starts(Boot(cfg, "auto", "task"))
        /\ stateFile = CreateRun(NoFile, PairPayload(cfg))
        /\ shadowFile = CreateRun(NoFile, PairPayload(cfg))
        /\ hookOut = NoOut
        /\ shadowOut = NoOut
        /\ hookIn = NoEvent
        /\ hookPayload = PairPayload(cfg)
        /\ hookPre = NoFile
        /\ shadowPre = NoFile
        /\ lastOp = "create"
        /\ updates = 0
        /\ blocks = 0
        /\ createdMax = cfg.maxIterations
        /\ DetectAtRest
        /\ WrapAtRest

\* one iteration of the controller (producer, executor, attemptCompletion)
\* on `content`, as a function of the state
PairIteration(s, c, content) ==
    LET s1 == [s EXCEPT !.producerCalls = @ + 1, !.chains[c].pc = "ai"]
        s2 == AfterProducer(s1, c,
                            IF s.config.hasExecutor THEN << <<"cmd">> >> ELSE content)
    IN  IF s2.chains[c].pc = "exec" THEN AttemptCompletion(s2, c, content) ELSE s2

\* the k-th iteration of the controller and the k-th exit event of the host
PairStep ==
    \E content \in SampleContents :
        /\ ~exited
        /\ chains[1].pc = "delay"
        /\ stateFile.exists
        /\ CtlBecomes(PairIteration(Now, 1, content))
        /\ StopStep([exists |-> TRUE, last |-> TailLine(content)])
        /\ UNCHANGED <<detVars, wrapVars>>

PairNext == PairStep

PairSpec == PairInit /\ [][PairNext]_vars

\* C16 (as claimed): the two realizations never disagree on termination:
\* the controller ends its loop after the k-th iteration iff the exit hook,
\* given the same output, allows the exit at its k-th invocation.
C16_SameTermination ==
    (lastAC.ran /\ lastOp = "stop")
    => (exited <=> hookOut.decision = "allow")

----------------------------------------------------------------------------
(* The completion check of attemptCompletion as a function of the content   *)
(* and the configured phrase                                                *)

\* phrases a controller can be constructed with (the constructor takes any
\* string that is not null, the empty one included)
SamplePhrases ==
    { <<"DONE">>, <<>>, <<" ", "DONE">>, <<"DONE", " ">>, <<"a", "<", "b">>,
      <<"done">>, <<"x">> }

\* "noise\n<promise>" + p + "</promise>\n", split at "\n"
NoiseMarker(p) ==
    << <<"noise">>, <<"<promise>">> \o p \o <<"</promise>">>, <<>> >>

SampleTexts == SampleContents \cup { NoiseMarker(p) : p \in SamplePhrases }

DetectInit ==
    /\ dText \in SampleTexts
    /\ dPromise \in SamplePhrases
    /\ dResult = "none"
    /\ HookInit
    /\ CtlAtRest
    /\ WrapAtRest

\* the scan of attemptCompletion run on dText for the phrase dPromise
DetectStep ==
    /\ dResult = "none"
    /\ dResult' = IF Detect(dText, dPromise) THEN "true" ELSE "false"
    /\ UNCHANGED <<dText, dPromise, hookVars, ctlVars, wrapVars>>

DetectNext == DetectStep

DetectSpec == DetectInit /\ [][DetectNext]_vars

\* C25 (as claimed): for every configured phrase p, the text
\* "noise\n<promise>" + p + "</promise>\n" is detected as complete for p.
C25_DetectorComplete ==
    (dResult # "none" /\ dText = NoiseMarker(dPromise)) => dResult = "true"

\* a marker <promise>...</promise> starts at token i of the line and ends at
\* token j, with no "<" between the tags
MarkerAt(line, i, j) ==
    /\ i < j
    /\ line[i] = "<promise>"
    /\ line[j] = "</promise>"
    /\ \A k \in (i + 1)..(j - 1) : ~HasLt(line[k])

\* the first marker of the line, trimmed, is non-empty and equal to p
FirstMarkerIs(line, p) ==
    \E i, j \in 1..Len(line) :
        /\ MarkerAt(line, i, j)
        /\ \A i2 \in 1..(i - 1) : \A j2 \in 1..Len(line) : ~MarkerAt(line, i2, j2)
        /\ Trim(SubSeq(line, i + 1, j - 1)) # <<>>
        /\ Trim(SubSeq(line, i + 1, j - 1)) = p

\* the indexes of the last 10 newline-separated lines of the text
LastTen(text) == { n \in 1..Len(text) : n > Len(text) - 10 }

\* the text holds no marker at all
NoMarker(text) ==
    \A n \in 1..Len(text) : \A i, j \in 1..Len(text[n]) : ~MarkerAt(text[n], i, j)

\* C26: the check succeeds iff one of the last 10 lines holds a marker whose
\* first occurrence on the line, trimmed, is non-empty and equal to the
\* phrase; an empty content, a content without marker, a marker above the
\* last 10 lines only and a phrase in another letter case are not detected.
C26_DetectorExact ==
    dResult # "none"
    => ( /\ (dResult = "true")
              <=> (\E n \in LastTen(dText) : FirstMarkerIs(dText[n], dPromise))
         /\ (dText = << <<>> >> \/ NoMarker(dText)) => dResult = "false"
         /\ (\A n \in LastTen(dText) : \A i, j \in 1..Len(dText[n]) :
                  ~MarkerAt(dText[n], i, j)) => dResult = "false"
         /\ (dPromise = <<"DONE">> /\ dText = << <<"<promise>", "done", "</promise>">> >>)
              => dResult = "false" )

\* C26 witness: the marker of the phrase stands on the first of 11 lines,
\* above the last 10, and the check has failed.
C26_Witness ==
    /\ dResult = "false"
    /\ dPromise = <<"DONE">>
    /\ Len(dText) = 11
    /\ dText[1] = MarkerLine

----------------------------------------------------------------------------
(* Claims about the in-process controller (checked under Spec)              *)

\* no call chain is inside a step: every chain is at the top-level question
\* or gone
LoopAtRest == \A c \in Chains : chains[c].pc \in {"none", "ask"}

\* C1 (as claimed): Auto mode, maxIterations = N >= 1, a top-level prompt
\* whose step contents never contain the completion marker, no interrupt:
\* once the loop started for that prompt is over, the producer was invoked
\* exactly N times and the terminal exit step was issued.
C1_ExactlyNProducerCalls ==
    ( /\ promptMode = "auto"
      /\ mode = "auto"
      /\ config.maxIterations >= 1
      /\ sigints = 0 /\ closes = 0
      /\ ~sawMarker
      /\ producerCalls >= 1
      /\ LoopAtRest )
    => ( /\ producerCalls = config.maxIterations
         /\ exited
         /\ quitBy = "sentinel" )

\* what attemptCompletion is to decide given what it found (lastAC): the
\* outcome for a normal executor result
ExpectedOutcome ==
    IF config.variant = "copilot" /\ lastAC.mode # "auto" THEN "return"
    ELSE IF lastAC.detect THEN "exit"
    ELSE IF lastAC.iteration >= config.maxIterations THEN "exit"
    ELSE "continue"

\* C17: a throwing executor never ends or crashes the loop.  The message
\* goes through the completion check (attemptCompletion ran in the same
\* step) and the decision is the one a normal result gets; unless paused,
\* "continue" starts the next iteration with the original prompt and "exit"
\* is the terminal exit.
C17_ExecutorThrowIsContent ==
    lastAC.threw = "executor"
    => ( /\ lastAC.ran
         /\ lastAC.outcome = ExpectedOutcome
         /\ (lastAC.outcome = "continue" /\ ~lastAC.paused)
              => ( /\ chains[lastAC.chain].pc = "delay"
                   /\ chains[lastAC.chain].prompt = "task"
                   /\ iteration = lastAC.iteration + 1 )
         /\ (lastAC.outcome = "exit" /\ ~lastAC.paused)
              => (exited /\ quitBy = "sentinel")
         /\ (lastAC.outcome = "return" \/ lastAC.paused)
              => (~exited /\ chains[lastAC.chain].pc \in {"ask", "none"}) )

\* C17 witness: the executor threw in iteration 1 of 3 in Auto mode, its
\* message held no marker, and iteration 2 started.
C17_Witness ==
    /\ lastAC.threw = "executor"
    /\ lastAC.ran
    /\ ~lastAC.detect
    /\ lastAC.mode = "auto"
    /\ lastAC.iteration = 1
    /\ lastAC.outcome = "continue"
    /\ iteration = 2
    /\ chains[lastAC.chain].pc = "delay"

\* C18 (as claimed): a throwing producer is handled like a throwing
\* executor: the step still runs its completion check and the loop for the
\* current prompt goes on (next iteration or terminal exit).
C18_ProducerThrowIsContent ==
    lastAC.threw = "producer"
    => ( /\ lastAC.ran
         /\ lastAC.outcome = ExpectedOutcome )

\* C19: while paused, no step begins an executor invocation and no step
\* performs the terminal exit: an action that starts an executor call or
\* ends the process by the sentinel happens only with pause = FALSE.
C19_PausedStepHasNoEffect ==
    [][ /\ (execCalls' = execCalls + 1) => (~pause /\ ~pause')
        /\ (~exited /\ exited' /\ quitBy' = "sentinel") => ~pause ]_vars

\* C19 witness: paused by a SIGINT during the executor call, the step's
\* attemptCompletion requested the terminal step, which returned at once:
\* the process lives and the chain is back at the top-level question.
C19_Witness ==
    /\ pause
    /\ sigints = 1
    /\ lastAC.ran
    /\ lastAC.paused
    /\ lastAC.outcome = "exit"
    /\ ~exited
    /\ ~isQuitting

\* the call chains that are inside a step
ActiveChains ==
    { c \in Chains : chains[c].pc \in {"delay", "ai", "confirm", "edit", "exec"} }

\* C20 (as claimed): no two step() chains are ever active at the same time.
C20_OneActiveChain == Cardinality(ActiveChains) <= 1

\* C21 (as claimed): every SIGINT received while the controller is not paused
\* leaves pause = TRUE, in Auto mode and in Confirm mode alike.
C21_InterruptSetsPause ==
    [][ (sigints' = sigints + 1 /\ ~pause) => pause' ]_vars

\* C22: the process exits only with isQuitting = TRUE; isQuitting becomes
\* TRUE only by a line typed at the top-level question (/q, or "exit" given
\* to step) or by the "exit" step of attemptCompletion; any other close of
\* the input stream leaves the process alive with the run loop asking again.
C22_ExitOnlyWhenQuitting ==
    [][ /\ exited' => isQuitting'
        /\ (~isQuitting /\ isQuitting')
             => \/ /\ questionOwner # 0
                   /\ chains[questionOwner].pc = "ask"
                   /\ quitBy' \in {"command", "typed"}
                \/ /\ lastAC'.ran
                   /\ lastAC'.outcome = "exit"
                   /\ quitBy' = "sentinel"
        /\ (closes' = closes + 1)
             => /\ ~exited'
                /\ ~isQuitting'
                /\ questionOwner' # 0
                /\ chains'[questionOwner'].pc = "ask" ]_vars

\* C22 witness: the stream closed without a quit; the process lives, a step
\* awaits its producer and a run loop asks.
C22_Witness ==
    /\ closes = 1
    /\ ~exited
    /\ ~isQuitting
    /\ \E c \in Chains : chains[c].pc = "ai"
    /\ questionOwner # 0
    /\ chains[questionOwner].pc = "ask"

\* C23 (as claimed): Confirm mode, choice skip ("n"): the executor is not
\* invoked for that step, and the completion check and the ceiling decision
\* run for that step (on empty content) in the same step of the controller.
C23_SkipDoesNotExecute ==
    [][ (lastGate' = "n" /\ ~pause)
        => ( /\ execCalls' = execCalls
             /\ lastAC'.ran ) ]_vars

\* C24 (as claimed): a producer stall detected by the watchdog is
\* recoverable at whatever iteration: the call is aborted, the process lives
\* and the controller is back at the top-level question (no interrupt and
\* no close of the stream in the behaviour, so the stalled chain is the only
\* one).
C24_StallReturnsToPrompt ==
    (lastAC.threw = "stall" /\ sigints = 0 /\ closes = 0)
    => ( /\ ~exited
         /\ ~isQuitting
         /\ questionOwner # 0
         /\ chains[questionOwner].pc = "ask"
         /\ ActiveChains = {} )

\* C29 (as claimed): copilot-loop, every step run in Confirm mode: when the
\* producer returns (the controller not paused, no other question pending)
\* the confirmation gate is asked before the result is acted upon.
C29_ConfirmModeAsks ==
    [][ \A c \in Chains :
          ( /\ config.variant = "copilot"
            /\ chains[c].pc = "ai"
            /\ chains[c].gate
            /\ ~pause
            /\ questionOwner = 0
            /\ chains'[c].pc # "ai"
            /\ lastAC'.threw # "producer"
            /\ ~exited' )
          => chains'[c].pc = "confirm" ]_vars

\* C30 (as claimed): while pause is TRUE no producer invocation begins,
\* whichever await the step in flight was suspended at when the interrupt
\* arrived.
C30_NoProducerCallWhilePaused ==
    [][ (producerCalls' = producerCalls + 1) => ~pause ]_vars

\* the lines of Inputs that run() dispatches as slash-commands
SlashInputs == {"/h", "/a", "/c", "/q", "/x"}

\* this step is run() reading the line input in chain c
Reads(c, input) ==
    /\ ~exited
    /\ questionOwner = c
    /\ chains[c].pc = "ask"
    /\ CtlBecomes(TopLevel([Now EXCEPT !.questionOwner = 0], c, input))

\* C33: a slash-command read by run() calls neither the producer nor the
\* executor and leaves iteration and pause as they were, "/h" and an
\* unrecognized command leave mode as it was too; iteration decreases and
\* pause is cleared only by run() reading a line that is not a slash-command,
\* which leaves iteration at 0 or at 1 (its first step has started); a step
\* started by anything but a line read adds one to iteration.
C33_InputDispatch ==
    [][ /\ \A c \in Chains, input \in SlashInputs :
              Reads(c, input)
                => ( /\ iteration' = iteration
                     /\ pause' = pause
                     /\ producerCalls' = producerCalls
                     /\ execCalls' = execCalls
                     /\ \A d \in Chains : chains'[d].pc \notin {"delay", "ai", "exec"}
                                               \/ chains'[d] = chains[d]
                     /\ (input \in {"/h", "/x"} => mode' = mode) )
        /\ (iteration' < iteration \/ (pause /\ ~pause'))
              => ( /\ \E c \in Chains, input \in Inputs \ SlashInputs : Reads(c, input)
                   /\ ~pause'
                   /\ iteration' \in {0, 1}
                   /\ iteration' = 1
                         <=> \E c \in Chains : chains'[c].pc = "delay" /\ chains[c].pc = "ask" )
        /\ \A c \in Chains :
              (chains[c].pc \notin {"ask", "delay"} /\ chains'[c].pc = "delay")
                => iteration' = iteration + 1
      ]_vars

\* C33 witness: "/c" was read while the loop was paused after one step or
\* more of a prompt typed in Auto mode: the mode is Confirm, pause and
\* iteration are what they were.
C33_Witness ==
    /\ sigints = 1
    /\ closes = 0
    /\ pause
    /\ iteration >= 1
    /\ promptMode = "auto"
    /\ mode = "confirm"
    /\ questionOwner # 0

\* C35: with maxIterations >= 1, iteration never exceeds maxIterations,
\* whatever interrupts, closes and lines typed occur while steps are in
\* flight.
C35_IterationWithinCeiling ==
    config.maxIterations >= 1 => iteration <= config.maxIterations

\* C35 witness: after an interrupt a new prompt was typed while the earlier
\* step was still in flight: two chains are inside a step and iteration
\* stands at the ceiling.
C35_Witness ==
    /\ sigints = 1
    /\ closes = 0
    /\ config.maxIterations = 3
    /\ iteration = 3
    /\ ~pause
    /\ Cardinality(ActiveChains) = 2

\* C2 (as claimed, scenario E): Auto mode, maxIterations = 3, the content of
\* iteration 1 holds the exact completion marker, no interrupt: after the
\* completion check there was exactly one executor call, the terminal step
\* was issued, and the producer was called twice in total.
C2_ScenarioE_TwoProducerCalls ==
    ( /\ lastAC.ran
      /\ lastAC.mode = "auto"
      /\ lastAC.iteration = 1
      /\ lastAC.detect
      /\ config.maxIterations = 3
      /\ config.hasExecutor
      /\ sigints = 0 /\ closes = 0 )
    => ( /\ execCalls = 1
         /\ exited
         /\ quitBy = "sentinel"
         /\ producerCalls = 2 )

\* C2 (amended): in scenario E there is exactly one executor call and the
\* terminal step is issued, but the producer is called once in total: the
\* terminal "exit" step is not dispatched to the producer, and no further
\* iteration happens (iteration stays 1, the process exits).
C2_ScenarioE_OneProducerCall ==
    ( /\ lastAC.ran
      /\ lastAC.mode = "auto"
      /\ lastAC.iteration = 1
      /\ lastAC.detect
      /\ config.maxIterations = 3
      /\ config.hasExecutor
      /\ sigints = 0 /\ closes = 0 )
    => ( /\ execCalls = 1
         /\ exited
         /\ quitBy = "sentinel"
         /\ producerCalls = 1
         /\ iteration = 1
         /\ LoopAtRest )

\* C2 witness: scenario E happened: the completion check of iteration 1 of 3
\* in Auto mode matched and the process exited.
C2_Witness ==
    /\ lastAC.ran
    /\ lastAC.mode = "auto"
    /\ lastAC.iteration = 1
    /\ lastAC.detect
    /\ config.maxIterations = 3
    /\ config.hasExecutor
    /\ sigints = 0 /\ closes = 0
    /\ exited

\* C3: the terminal step("exit") issued by attemptCompletion calls neither
\* the producer nor the executor and does not increment iteration: the
\* counters are what they were when attemptCompletion ran and its chain is
\* not inside a step; unless the controller is paused (then the step does
\* nothing), it sets the quitting flag and closes the input stream, which
\* ends the process.
C3_SentinelNotDispatched ==
    (lastAC.ran /\ lastAC.outcome = "exit")
    => ( /\ producerCalls = lastAC.producerCalls
         /\ execCalls = lastAC.execCalls
         /\ iteration = lastAC.iteration
         /\ chains[lastAC.chain].pc \in {"none", "ask"}
         /\ (~lastAC.paused => isQuitting /\ exited /\ quitBy = "sentinel")
         /\ (lastAC.paused => ~isQuitting /\ ~exited) )

\* C3 witness: attemptCompletion issued the terminal step after two
\* iterations, not paused, and the process exited.
C3_Witness ==
    /\ lastAC.ran
    /\ lastAC.outcome = "exit"
    /\ ~lastAC.paused
    /\ lastAC.iteration = 2
    /\ lastAC.producerCalls = 2
    /\ isQuitting
    /\ exited

\* C4 (as claimed): in either mode, whenever the completion check matches
\* (the marker is in the last 10 lines of the content) and the controller
\* is not paused, attemptCompletion issues the terminal exit step.
C4_MatchIssuesExit ==
    (lastAC.ran /\ lastAC.detect /\ ~lastAC.paused) => lastAC.outcome = "exit"

\* C5 (as claimed): with maxIterations = 0 the controller never stops
\* because of the iteration count: after a step whose content does not
\* match, attemptCompletion re-invokes step with the original prompt.
C5_ZeroIsUnbounded ==
    ( /\ lastAC.ran
      /\ config.maxIterations = 0
      /\ lastAC.mode = "auto"
      /\ ~lastAC.detect
      /\ ~lastAC.paused )
    => lastAC.outcome = "continue"

----------------------------------------------------------------------------
(* The record's format, as the README documents it: a header block between  *)
(* the first two "---" lines, then the body.                                *)

\* the line number of the delimiter that closes the header, 0 when none
HeaderEnd(lines) ==
    IF \E i \in 2..Len(lines) : lines[i] = <<"---">>
    THEN CHOOSE i \in 2..Len(lines) :
            /\ lines[i] = <<"---">>
            /\ \A j \in 2..(i - 1) : lines[j] # <<"---">>
    ELSE 0

HeaderOf(lines) == SubSeq(lines, 1, HeaderEnd(lines))

BodyOf(lines) == SubSeq(lines, HeaderEnd(lines) + 1, Len(lines))

\* the text after "key: " on the header's line for `key`, <<>> when none
HeaderField(lines, key) ==
    LET at == { i \in 1..HeaderEnd(lines) :
                   Len(lines[i]) >= 3 /\ SubSeq(lines[i], 1, 3) = <<key, ":", " ">> }
    IN  IF at = {} THEN <<>>
        ELSE LET i == CHOOSE k \in at : \A m \in at : k <= m
             IN  SubSeq(lines[i], 4, Len(lines[i]))

\* the header holds integer counters
HeaderHasCounters(lines) ==
    IsDigits(HeaderField(lines, "iteration"))
    /\ IsDigits(HeaderField(lines, "max_iterations"))

HeaderIter(lines) == ParseInt(HeaderField(lines, "iteration"))

HeaderMax(lines) == ParseInt(HeaderField(lines, "max_iterations"))

\* the hook's own validation of the counters passes
Validated(file) ==
    file.exists /\ IsIntString(ParseIter(file.lines)) /\ IsIntString(ParseMax(file.lines))

\* the last marker of the transcript's final line, <<"(none)">> when none
LastMarker(ev) ==
    LET ms == GrepPromises(ev.last, 1)
    IN  IF ev.exists /\ ms # <<>> THEN ms[Len(ms)] ELSE <<"(none)">>

\* some marker of the transcript's final line holds exactly `phrase`
SomeMarkerIs(ev, phrase) ==
    ev.exists /\ \E k \in 1..Len(GrepPromises(ev.last, 1)) :
                    GrepPromises(ev.last, 1)[k] = phrase

\* the record's completion phrase is set: one line, not empty, not "null"
PhraseSet(file) ==
    /\ Len(ParsePromise(file.lines)) = 1
    /\ ParsePromise(file.lines) # << <<"null">> >>

PhraseOf(file) == ParsePromise(file.lines)[1]

----------------------------------------------------------------------------
(* Claims about the exit hook (checked under HookSpec)                      *)

\* C6: exit hook on a record whose header holds integer counters with
\* iteration >= max_iterations and max_iterations > 0: the record is deleted
\* and the exit allowed, whatever the transcript holds.
C6_CeilingDeletesAndAllows ==
    (/\ lastOp = "stop"
     /\ hookPre.exists
     /\ HeaderHasCounters(hookPre.lines)
     /\ HeaderIter(hookPre.lines) >= HeaderMax(hookPre.lines)
     /\ HeaderMax(hookPre.lines) > 0)
    => (stateFile = NoFile /\ hookOut.decision = "allow")

\* C6 witness: iteration 5 of 5 with a matching marker in the transcript:
\* the record is gone, the exit allowed, and the reason is the ceiling.
C6_Witness ==
    /\ lastOp = "stop"
    /\ hookPre.exists
    /\ HeaderHasCounters(hookPre.lines)
    /\ HeaderIter(hookPre.lines) = 5
    /\ HeaderMax(hookPre.lines) = 5
    /\ PhraseSet(hookPre)
    /\ SomeMarkerIs(hookIn, PhraseOf(hookPre))
    /\ stateFile = NoFile
    /\ hookOut.decision = "allow"
    /\ hookOut.why = "max"

\* C7 (as claimed): exit hook on a record with validated integer counters,
\* below the ceiling, no marker of the transcript equal to the phrase: the
\* hook blocks and the record afterwards differs from the record before in
\* the header's iteration only, which is the old iteration + 1.
C7_BlockRewritesOnlyIteration ==
    (/\ lastOp = "stop"
     /\ Validated(hookPre)
     /\ ~(IntOf(ParseIter(hookPre.lines)) >= IntOf(ParseMax(hookPre.lines))
          /\ IntOf(ParseMax(hookPre.lines)) > 0)
     /\ \A k \in 1..Len(ParsePromise(hookPre.lines)) :
            ~SomeMarkerIs(hookIn, ParsePromise(hookPre.lines)[k]))
    => (/\ hookOut.decision = "block"
        /\ stateFile.exists
        /\ HeaderField(stateFile.lines, "iteration")
             = FormatInt(IntOf(ParseIter(hookPre.lines)) + 1)
        /\ HeaderField(stateFile.lines, "max_iterations")
             = HeaderField(hookPre.lines, "max_iterations")
        /\ HeaderField(stateFile.lines, "completion_promise")
             = HeaderField(hookPre.lines, "completion_promise")
        /\ BodyOf(stateFile.lines) = BodyOf(hookPre.lines))

\* C8 (as claimed): two records with the same header, one with the plain
\* body "task" (the shadow) and one with any body, get the same decision
\* from the same exit event, the same header afterwards, and keep their
\* body verbatim.
C8_DecisionIgnoresBody ==
    (/\ lastOp = "stop"
     /\ hookPre.exists
     /\ shadowPre.exists
     /\ HeaderOf(hookPre.lines) = HeaderOf(shadowPre.lines))
    => (/\ hookOut.decision = shadowOut.decision
        /\ stateFile.exists = shadowFile.exists
        /\ stateFile.exists =>
              /\ HeaderOf(stateFile.lines) = HeaderOf(shadowFile.lines)
              /\ BodyOf(stateFile.lines) = BodyOf(hookPre.lines))

\* C9 (as claimed): exit hook on a record with validated counters,
\* iteration > 2, below the ceiling, completion phrase set: if the last
\* marker of the transcript's final line is exactly the phrase, the record
\* is deleted and the exit allowed, also when the line carries several
\* markers.
C9_LastMarkerCompletes ==
    (/\ lastOp = "stop"
     /\ Validated(hookPre)
     /\ IntOf(ParseIter(hookPre.lines)) > 2
     /\ ~(IntOf(ParseIter(hookPre.lines)) >= IntOf(ParseMax(hookPre.lines))
          /\ IntOf(ParseMax(hookPre.lines)) > 0)
     /\ PhraseSet(hookPre)
     /\ LastMarker(hookIn) = PhraseOf(hookPre))
    => (stateFile = NoFile /\ hookOut.decision = "allow")

----------------------------------------------------------------------------
(* Claims about the record's lifecycle (checked under HookSpec)             *)

\* C11: when no record exists, the exit hook allows the exit and the
\* prompt-update hooks do nothing: neither leaves a record behind, so a
\* record that appears where there was none was written by the creation hook.
C11_OnlyCreationMakesRecord ==
    /\ (lastOp \in ({"stop"} \cup UpdateVariants) /\ ~hookPre.exists)
         => ~stateFile.exists
    /\ (lastOp = "stop" /\ ~hookPre.exists)
         => (hookOut.decision = "allow" /\ hookOut.why = "nofile")
    /\ (stateFile.exists /\ ~hookPre.exists) => lastOp = "create"

\* C11 witness: the stdin variant of the prompt-update hook (which has no
\* test for an empty prompt) ran with a non-empty prompt and no record.
C11_Witness ==
    /\ lastOp = "stdin"
    /\ hookIn.last # <<>>
    /\ ~hookPre.exists
    /\ ~stateFile.exists

\* C12: fail-open on corrupt state.  When the iteration or the
\* max_iterations the exit hook reads from the record is not a string of
\* digits, the hook deletes the record and allows the exit: it does not
\* block and does not rewrite the record.
C12_FailOpenOnCorrupt ==
    (lastOp = "stop" /\ hookPre.exists /\ ~Validated(hookPre))
    => ( /\ hookOut.decision = "allow"
         /\ hookOut.why = "corrupt"
         /\ ~stateFile.exists )

\* C12 witness: the exit hook ran on a record whose header a prompt update
\* had dropped (no iteration line at all) and deleted it.
C12_Witness ==
    /\ lastOp = "stop"
    /\ hookPre.exists
    /\ ParseIter(hookPre.lines) = <<>>
    /\ hookOut.why = "corrupt"
    /\ ~stateFile.exists

\* C13 (as claimed): the creation hook invoked while a record exists skips
\* the creation: the record is what it was (for an empty prompt the hook
\* does nothing anyway).
C13_CreationSkippedWhenRecordExists ==
    (lastOp = "create" /\ hookPre.exists) => stateFile = hookPre

\* C14: after every exit-hook invocation the hook has emitted "block" iff
\* the record exists afterwards; an allowed exit leaves no record.
C14_BlockIffRecordRemains ==
    lastOp = "stop"
    => ( /\ hookOut.decision \in {"block", "allow"}
         /\ (hookOut.decision = "block" <=> stateFile.exists)
         /\ (hookOut.decision = "allow" => ~stateFile.exists) )

\* C14 witness: the exit hook found the completion marker at iteration 3,
\* allowed the exit and removed the record.
C14_Witness ==
    /\ lastOp = "stop"
    /\ hookPre.exists
    /\ hookOut.decision = "allow"
    /\ hookOut.why = "completed"
    /\ ~stateFile.exists

\* C15: bounded persisted loop.  Since the last creation, with
\* max_iterations = N >= 1: the exit hook has blocked at most N-1 times, the
\* iteration stored in the header is at most N, an invocation that does not
\* block deletes the record and allows the exit, and after the (N-1)-th
\* block every exit event makes the hook delete the record and allow.
C15_BoundedPersistedLoop ==
    createdMax >= 1
    => ( /\ blocks <= createdMax - 1
         /\ (stateFile.exists /\ IsDigits(HeaderField(stateFile.lines, "iteration")))
              => HeaderIter(stateFile.lines) <= createdMax
         /\ (lastOp = "stop" /\ hookOut.decision # "block")
              => (hookOut.decision = "allow" /\ ~stateFile.exists)
         /\ (stateFile.exists /\ blocks = createdMax - 1)
              => \A ev \in ExitEvents :
                    /\ StopRun(stateFile, ev).out.decision = "allow"
                    /\ ~StopRun(stateFile, ev).file.exists )

\* C15 witness: a record created with max_iterations = 5, its prompt updated
\* once, blocked for the 4th time: iteration 5 of 5 is stored.
C15_Witness ==
    /\ createdMax = 5
    /\ blocks = 4
    /\ updates = 1
    /\ lastOp = "stop"
    /\ hookOut.decision = "block"
    /\ stateFile.exists
    /\ HeaderIter(stateFile.lines) = 5

\* C27 (as claimed): a prompt update on an existing record with a non-empty
\* prompt leaves the header block as it was, so the exit hook reads the same
\* iteration, max and phrase afterwards; for every prompt-update script.
C27_UpdateKeepsHeader ==
    (lastOp \in UpdateVariants /\ hookPre.exists /\ hookIn.last # <<>>)
    => ( /\ stateFile.exists
         /\ HeaderOf(stateFile.lines) = HeaderOf(hookPre.lines)
         /\ HeaderField(stateFile.lines, "iteration")
              = HeaderField(hookPre.lines, "iteration")
         /\ HeaderField(stateFile.lines, "max_iterations")
              = HeaderField(hookPre.lines, "max_iterations")
         /\ HeaderField(stateFile.lines, "completion_promise")
              = HeaderField(hookPre.lines, "completion_promise") )

\* the payload's value of a field, or the default when the field is absent
ValueOr(value, default) == IF value = <<>> THEN default ELSE value

\* C28 (as claimed): the creation hook leaves the record state unchanged when
\* the payload has no prompt; with a non-empty prompt and no existing record
\* it writes iteration 1, the payload's max_iterations or 50, the payload's
\* completion_promise or the default sentinel, and the prompt as body.
C28_CreationWritesPayload ==
    lastOp = "create"
    => ( /\ hookPayload.prompt = <<>> => stateFile = hookPre
         /\ (hookPayload.prompt # <<>> /\ ~hookPre.exists)
              => /\ stateFile.exists
                 /\ HeaderField(stateFile.lines, "iteration") = <<"1">>
                 /\ HeaderField(stateFile.lines, "max_iterations")
                      = ValueOr(hookPayload.max_iterations, <<"5", "0">>)
                 /\ HeaderField(stateFile.lines, "completion_promise")
                      = <<"Q">> \o ValueOr(hookPayload.completion_promise,
                                           DefaultCompletionPromise) \o <<"Q">>
                 /\ BodyOf(stateFile.lines) = << <<>>, hookPayload.prompt >> )

\* C34: exit hook on a record whose counters pass the hook's validation,
\* with iteration > 2 and the ceiling not reached: when the event names no
\* transcript file that exists, or the last line of the transcript holds no
\* marker, the hook blocks with iteration + 1 and the record remains, holding
\* iteration + 1.
C34_NoTranscriptBlocks ==
    (/\ lastOp = "stop"
     /\ Validated(hookPre)
     /\ IntOf(ParseIter(hookPre.lines)) > 2
     /\ ~MaxReached(IntOf(ParseIter(hookPre.lines)), IntOf(ParseMax(hookPre.lines)))
     /\ (~hookIn.exists \/ GrepPromises(hookIn.last, 1) = <<>>))
    => (/\ hookOut.decision = "block"
        /\ hookOut.why = "continue"
        /\ hookOut.next = IntOf(ParseIter(hookPre.lines)) + 1
        /\ stateFile.exists
        /\ HeaderField(stateFile.lines, "iteration")
             = FormatInt(IntOf(ParseIter(hookPre.lines)) + 1))

\* C34 witness: iteration 3 of 5 with the phrase set, an exit event without
\* a transcript, and the hook has blocked with iteration 4.
C34_Witness ==
    /\ lastOp = "stop"
    /\ Validated(hookPre)
    /\ IntOf(ParseIter(hookPre.lines)) = 3
    /\ IntOf(ParseMax(hookPre.lines)) = 5
    /\ PhraseSet(hookPre)
    /\ ~hookIn.exists
    /\ hookOut.decision = "block"
    /\ hookOut.next = 4
    /\ stateFile.exists

\* C36 (as claimed): the phrase the exit hook parses from a record the
\* creation hook has just written is the phrase the creation hook wrote
\* between the quotes of the completion_promise line.
C36_PhraseRoundTrip ==
    (lastOp = "create" /\ ParamsOf[hookPayload].prompt # <<>>)
    => ParsePromise(stateFile.lines) = << ParamsOf[hookPayload].promise >>

----------------------------------------------------------------------------
(* The producer wrapper: one call of aiCommand with its polling wait        *)
(* (aiThinking), its health check and the session's idle timer.  A field of *)
(* `call` per variable of the code:                                         *)
(*   pc                 "init" (await initSession), "persona" (await of the *)
(*                      persona prompt), "race" (await Promise.race),       *)
(*                      "returned", "threw"                                 *)
(*   healthCheckHandle  the 3 s ping interval is set                        *)
(*   aborted            "no", or what called abortController.abort()        *)
(*   sends              sendAndWait calls of say() not settled yet          *)
(*   settled            some sendAndWait of say() has settled               *)
(*   mainResponse       "" , "text" (a content) or "error" (the rejection)  *)
(*   checkInterval      the 500 ms poll interval is set                     *)
(*   thinking           the promise aiThinking returns                      *)
(*   gLlm               the global gLlm is not empty                        *)
(*   sessionTimout      the 10 min timer of the session listener is armed   *)
(*   ret                what aiCommand returned                             *)

\* tool results reported while the call runs
MaxTools == 1

\* how a sendAndWait settles: a content, no content, a rejection
SendOutcomes == {"text", "empty", "error"}

\* aiCommand entered: promptConfig.persona set or not, gLlm as left behind
Calling(persona, g) == [NoCall EXCEPT !.pc = "init", !.persona = persona, !.gLlm = g]

\* return (or catch) of aiCommand, then its finally
Finish(w, value) ==
    [w EXCEPT !.pc = "returned", !.ret = value, !.healthCheckHandle = FALSE]

\* say(): one more sendAndWait in flight
Say(w) == [w EXCEPT !.sends = @ + 1]

\* aiThinking up to the promise it returns, inside Promise.race
AiThinking(w) ==
    [Say(w) EXCEPT !.mainResponse = "", !.checkInterval = TRUE,
                   !.thinking = "pending", !.pc = "race"]

\* abortController.abort(): the "abort" listener of the race rejects, the
\* catch returns ""; before the race no listener is registered
Abort(w, by) ==
    IF w.aborted # "no" THEN w
    ELSE IF w.pc = "race" THEN Finish([w EXCEPT !.aborted = by], "")
    ELSE [w EXCEPT !.aborted = by]

WrapBecomes(w) == call' = w /\ UNCHANGED <<hookVars, ctlVars, detVars>>

\* initSession resolves: the health check is set, then the persona prompt is
\* sent or the race entered
InitSessionReturns ==
    /\ call.pc = "init"
    /\ LET w == [call EXCEPT !.healthCheckHandle = TRUE]
       IN  WrapBecomes(IF w.persona THEN [w EXCEPT !.pc = "persona"] ELSE AiThinking(w))

\* initSession rejects: aiCommand rejects before the health check is set
InitSessionThrows ==
    /\ call.pc = "init"
    /\ WrapBecomes([call EXCEPT !.pc = "threw"])

\* the sendAndWait of the persona prompt settles
PersonaSettles ==
    \E ok \in BOOLEAN :
        /\ call.pc = "persona"
        /\ WrapBecomes(IF ok THEN AiThinking([call EXCEPT !.sessionTimout = TRUE])
                       ELSE Finish(call, ""))

\* a ping fails or takes more than 1 s
ProbeFails ==
    /\ call.healthCheckHandle
    /\ call.aborted = "no"
    /\ WrapBecomes(Abort(call, "probe"))

\* the session emits an event while it works: the listener arms the timer
SessionEvent ==
    /\ call.pc \in {"persona", "race"}
    /\ ~call.sessionTimout
    /\ WrapBecomes([call EXCEPT !.sessionTimout = TRUE])

\* 10 minutes without an event
SessionTimeoutFires ==
    /\ call.sessionTimout
    /\ WrapBecomes(Abort([call EXCEPT !.sessionTimout = FALSE], "idle"))

\* a sendAndWait of say() settles: .then or .catch assigns mainResponse
SendSettles ==
    \E outcome \in SendOutcomes :
        /\ call.sends > 0
        /\ WrapBecomes([call EXCEPT
              !.sends = @ - 1,
              !.settled = TRUE,
              !.mainResponse = IF outcome = "empty" THEN "" ELSE outcome,
              !.sessionTimout = IF outcome = "error" THEN @ ELSE TRUE])

\* the 500 ms poll
PollTick ==
    /\ call.checkInterval
    /\ LET w1 == IF call.mainResponse = "" THEN call
                 ELSE LET r == [call EXCEPT !.checkInterval = FALSE,
                                            !.thinking = "resolved"]
                      IN  IF r.pc = "race" THEN Finish(r, r.mainResponse) ELSE r
           w2 == IF w1.gLlm THEN Say([w1 EXCEPT !.gLlm = FALSE]) ELSE w1
       IN  /\ w2 # call
           /\ WrapBecomes(w2)

\* onPostToolUse reports the result of a tool: gLlm is set
ToolResult ==
    /\ call.pc \in {"persona", "race"}
    /\ call.tools < MaxTools
    /\ WrapBecomes([call EXCEPT !.gLlm = TRUE, !.tools = @ + 1])

WrapInit ==
    /\ \E persona \in BOOLEAN, g \in BOOLEAN : call = Calling(persona, g)
    /\ HookInit
    /\ CtlAtRest
    /\ DetectAtRest

WrapNext ==
    \/ InitSessionReturns
    \/ InitSessionThrows
    \/ PersonaSettles
    \/ ProbeFails
    \/ SessionEvent
    \/ SessionTimeoutFires
    \/ SendSettles
    \/ PollTick
    \/ ToolResult

WrapSpec == WrapInit /\ [][WrapNext]_vars

\* the timers that are set do fire
WrapLiveSpec ==
    /\ WrapSpec
    /\ WF_vars(PollTick)
    /\ WF_vars(SessionTimeoutFires)

\* C37 (as claimed): once the sendAndWait calls of aiThinking have settled,
\* aiThinking resolves and aiCommand returns.
C37_PollingTerminates ==
    (call.thinking = "pending" /\ call.settled /\ call.sends = 0)
      ~> (call.thinking = "resolved" /\ call.pc = "returned")

\* C38 (as claimed): after a failed probe has aborted the call, aiCommand
\* returns the empty string, and no health check is left set once aiCommand
\* has returned or thrown.
C38_AbortReturnsEmpty ==
    /\ (call.aborted = "probe" /\ call.pc = "returned") => call.ret = ""
    /\ call.pc \in {"returned", "threw"} => ~call.healthCheckHandle

====
